---- MODULE Spec2Model ----
(***************************************************************************)
(* Library backend (src/index.js, the server of lines 102-339): the        *)
(* GraphQL resolvers, the request context and the BOOK_ADDED pub/sub       *)
(* channel, over a document store holding Author, Book and User records.   *)
(*                                                                         *)
(* Every request is an asynchronous task: the resolvers yield at each      *)
(* `await`, so a request is modelled as a small process whose steps are    *)
(* the code between two awaits, and the steps of concurrent requests       *)
(* interleave.                                                             *)
(***************************************************************************)
EXTENDS Integers, Sequences, FiniteSets, TLC

(* ------------------------------ bounds -------------------------------- *)
\* Number of requests that can be in flight at the same time.
NumReq == 2
\* Number of those requests that can be addBook calls while other clients
\* subscribe, disconnect or query the authors.
NumPub == 1
\* Number of client connections that can hold a bookAdded subscription.
NumSub == 2

Req == 1..NumReq
Pub == 1..NumPub
Readers == Req \ Pub
Sub == 1..NumSub

(* ------------------------------ inputs -------------------------------- *)
\* addBook arguments of requests with any header: a title of length 3
\* (rejected) and a longer one, a name of length 4 (rejected) and a longer one.
GateInputs ==
    [titles |-> {"Ubu", "Dune"}, names |-> {"Zola", "Kafka"},
     published |-> {1965}, genres |-> {<<"scifi">>}]
\* addBook arguments of catalogue requests: the same, with two genre lists.
LibraryInputs ==
    [titles |-> {"Ubu", "Dune"}, names |-> {"Zola", "Kafka"},
     published |-> {1965}, genres |-> {<<>>, <<"scifi">>}]
\* addBook arguments of publishing and racing clients: valid titles, one name.
PublishingInputs ==
    [titles |-> {"Dune", "Emma"}, names |-> {"Kafka"},
     published |-> {1965}, genres |-> {<<"scifi">>}]
\* addBook arguments of the clients that fill the shelves of two authors.
ShelfInputs ==
    [titles |-> {"Dune", "Emma"}, names |-> {"Kafka", "Woolf"},
     published |-> {1965}, genres |-> {<<"scifi">>}]
\* addBook arguments of the clients whose requests test the context.
ContextInputs ==
    [titles |-> {"Dune", "Emma"}, names |-> {"Kafka"},
     published |-> {1965}, genres |-> {<<"scifi">>}]
\* addBook arguments of the clients that fill the catalogue other clients
\* read: two titles, two names, two genre lists.
BookInputs ==
    [titles |-> {"Dune", "Emma"}, names |-> {"Kafka", "Woolf"},
     published |-> {1965}, genres |-> {<<"scifi">>, <<"crime", "scifi">>}]
\* editAuthor arguments of editing clients: the name of an author that
\* writing clients add books of, and a name no book carries.
EditInputs ==
    [titles |-> {}, names |-> {"Kafka", "Woolf"}, published |-> {}, genres |-> {}]
\* setBornTo of editAuthor: absent (null) or a year.
Births == {0, 1883}
\* genre of allBooks, when it is given.
GenreLabels == {"scifi", "crime"}
Usernames == {"ann", "bob"}
Passwords == {"secret", "guess"}
\* First seven characters of the authorization header, when it is present.
Schemes == {"Bearer ", "Basic: "}

(* --------------------------- null values ------------------------------ *)
\* JavaScript null/undefined, one per record type.
NoUser == [id |-> 0, username |-> ""]
NoAuthor == [id |-> 0, name |-> "", born |-> 0]
NoBook == [id |-> 0, title |-> "", published |-> 0, genres |-> <<>>, author |-> 0]
NoToken == [username |-> "", id |-> 0, sig |-> ""]
NoHeader == [scheme |-> "", token |-> NoToken]
NoArgs ==
    [title |-> "", published |-> 0, author |-> "", genres |-> <<>>,
     username |-> "", password |-> "", name |-> "", setBornTo |-> 0, genre |-> ""]
NoWrites == [authors |-> 0, books |-> 0, events |-> 0, edits |-> 0]
NoResult == [kind |-> "none"]

VARIABLES
    authors,      \* Author collection: sequence of [id, name, born]
    books,        \* Book collection: sequence of [id, title, published, genres, author]
    users,        \* User collection: sequence of [id, username]
    pc,           \* pc[r]: where request r stands
    op,           \* op[r]: the operation request r runs
    header,       \* header[r]: the request's authorization header
    args,         \* args[r]: the operation's arguments
    currentUser,  \* currentUser[r]: the identity in the request's context
    author,       \* author[r]: addBook's local `author`
    book,         \* book[r]: addBook's local `book`
    result,       \* result[r]: the response, once pc[r] = "done"
    writes,       \* writes[r]: store writes and publications made by request r
    audience,     \* audience[r]: connections subscribed since before request r arrived
    taken,        \* taken[r]: the title (addBook), username (login, createUser)
                  \* or name (editAuthor) of request r was in the store when
                  \* r arrived
    issued,       \* tokens that login has handed to clients
    attached,     \* attached[s]: connection s holds a bookAdded iterator
    pushQueue,    \* pushQueue[s]: events pushed to the iterator of s, oldest first
    attachedAt,   \* attachedAt[s]: number of publications when s attached
    pubLog        \* all books published on BOOK_ADDED, in publish order

storeVars == <<authors, books, users>>
reqVars == <<pc, op, header, args, currentUser, author, book, result, writes, audience, taken>>
subVars == <<attached, pushQueue, attachedAt>>
vars == <<storeVars, reqVars, subVars, issued, pubLog>>

(* ------------------------------ helpers ------------------------------- *)
Range(s) == {s[i] : i \in DOMAIN s}

Failure(name, message) == [kind |-> "error", error |-> name, message |-> message]

\* String.prototype.toLowerCase on the header's first seven characters.
ToLowerCase(s) ==
    CASE s = "Bearer " -> "bearer "
      [] s = "Basic: " -> "basic: "
      [] OTHER -> s

(* ------------------------------- store -------------------------------- *)
\* Model.findOne(filter): the first record of the collection among those
\* the filter matches (given by their positions), or null.
FindOne(coll, matching, null) ==
    IF matching = {}
    THEN null
    ELSE coll[CHOOSE i \in matching : \A j \in matching : i <= j]

\* Model.find(filter): the records the filter matches, in store order.
Find(coll, matching) ==
    LET upTo[n \in 0..Len(coll)] ==
           IF n = 0 THEN <<>>
           ELSE IF n \in matching THEN Append(upTo[n - 1], coll[n])
           ELSE upTo[n - 1]
    IN upTo[Len(coll)]

\* Book collection: title carries a unique index.
BookSaveOk(b) == \A i \in DOMAIN books : books[i].title # b.title

\* Author collection: the unknown-author path of addBook relies on its own
\* findOne; no uniqueness transaction covers the lookup and the insert.
AuthorSaveOk(a) == TRUE

\* User collection: username carries a unique index.
UserSaveOk(u) == \A i \in DOMAIN users : users[i].username # u.username


(* ------------------------------- tokens ------------------------------- *)
\* process.env.SECRET, the signing secret of the process.
Secret == "SECRET"

\* jwt.sign(payload, secret)
JwtSign(payload, secret) ==
    [username |-> payload.username, id |-> payload.id, sig |-> secret]

\* Mutant: jwt.decode for jwt.verify, the signature is not looked at.
JwtVerifies_Decode(token, secret) == TRUE

\* jwt.verify(token, secret) throws unless the signature is the secret's.
JwtVerifies(token, secret) == token.sig = secret

\* jwt.verify(token, secret), when it does not throw: the decoded payload.
JwtDecoded(token) == [username |-> token.username, id |-> token.id]

\* Tokens not signed with the process secret.
ForgedTokens == {[username |-> "ann", id |-> 1, sig |-> "forged"]}

\* Authorization headers a client can send: none, or seven characters of
\* scheme followed by a token it was handed or made up.
Headers ==
    {NoHeader} \cup
    {[scheme |-> s, token |-> t] : s \in Schemes, t \in issued \cup ForgedTokens}

\* The headers of clients that send the token they were handed, or none.
PlainHeaders ==
    {NoHeader} \cup {[scheme |-> "Bearer ", token |-> t] : t \in issued}

\* Tokens signed with the process secret for a user the store does not
\* hold: the user record was removed from the store after the login.
GhostTokens == {[username |-> "eve", id |-> 99, sig |-> Secret]}

\* Every header of Headers, and those that carry the token of a removed user.
AnyHeaders ==
    Headers \cup {[scheme |-> s, token |-> t] : s \in Schemes, t \in GhostTokens}

\* The headers of clients that always send the token they were handed.
BearerHeaders == {[scheme |-> "Bearer ", token |-> t] : t \in issued}

(* ------------------------------ requests ------------------------------ *)
CatalogueOps == {"addBook"}
QueryOps == {"allAuthors"}
AccountOps == {"createUser", "login", "me"}
PublishingOps == {"addBook"}
EditOps == {"editAuthor"}
ContextOps == {"me", "addBook", "editAuthor"}
ReadOps == {"allBooks", "bookCount", "authorCount"}

ArgsOf(o, inputs) ==
    CASE o = "addBook" ->
           {[NoArgs EXCEPT !.title = t, !.published = p, !.author = a, !.genres = g] :
               t \in inputs.titles, p \in inputs.published,
               a \in inputs.names, g \in inputs.genres}
      [] o = "createUser" -> {[NoArgs EXCEPT !.username = u] : u \in Usernames}
      [] o = "login" ->
           {[NoArgs EXCEPT !.username = u, !.password = p] :
               u \in Usernames, p \in Passwords}
      [] o = "editAuthor" ->
           {[NoArgs EXCEPT !.name = n, !.setBornTo = y] :
               n \in inputs.names, y \in Births}
      [] o = "allBooks" ->
           {[NoArgs EXCEPT !.author = a, !.genre = g] :
               a \in {""} \cup inputs.names, g \in {""} \cup GenreLabels}
      [] OTHER -> {NoArgs}

\* The empty store the server is first started on.
Init ==
    /\ authors = <<>>
    /\ books = <<>>
    /\ users = <<>>
    /\ pc = [r \in Req |-> "idle"]
    /\ op = [r \in Req |-> "none"]
    /\ header = [r \in Req |-> NoHeader]
    /\ args = [r \in Req |-> NoArgs]
    /\ currentUser = [r \in Req |-> NoUser]
    /\ author = [r \in Req |-> NoAuthor]
    /\ book = [r \in Req |-> NoBook]
    /\ result = [r \in Req |-> NoResult]
    /\ writes = [r \in Req |-> NoWrites]
    /\ audience = [r \in Req |-> {}]
    /\ taken = [r \in Req |-> FALSE]
    /\ issued = {}
    /\ attached = [s \in Sub |-> FALSE]
    /\ pushQueue = [s \in Sub |-> <<>>]
    /\ attachedAt = [s \in Sub |-> 0]
    /\ pubLog = <<>>

\* The request ends with outcome res.
Finish(r, res) ==
    /\ pc' = [pc EXCEPT ![r] = "done"]
    /\ result' = [result EXCEPT ![r] = res]

\* `auth && auth.toLowerCase().startsWith("bearer ")`
IsBearer(auth) == auth # NoHeader /\ ToLowerCase(auth.scheme) = "bearer "

\* Mutant: the lookup falls back to the first user of the collection.
UserById_First(id) ==
    FindOne(users, IF \E i \in DOMAIN users : users[i].id = id
                   THEN {i \in DOMAIN users : users[i].id = id}
                   ELSE DOMAIN users, NoUser)

\* User.findById(id)
UserById(id) == FindOne(users, {i \in DOMAIN users : users[i].id = id}, NoUser)

\* A later start of the server: the store holds the account of a user who
\* has created it and logged in, and who holds the token of that login.
Registered ==
    [id |-> 1, username |-> "ann"]

InitRegistered ==
    /\ authors = <<>>
    /\ books = <<>>
    /\ users = <<Registered>>
    /\ issued = {[username |-> "ann", id |-> 1, sig |-> Secret]}
    /\ pc = [r \in Req |-> "idle"]
    /\ op = [r \in Req |-> "none"]
    /\ header = [r \in Req |-> NoHeader]
    /\ args = [r \in Req |-> NoArgs]
    /\ currentUser = [r \in Req |-> NoUser]
    /\ author = [r \in Req |-> NoAuthor]
    /\ book = [r \in Req |-> NoBook]
    /\ result = [r \in Req |-> NoResult]
    /\ writes = [r \in Req |-> NoWrites]
    /\ audience = [r \in Req |-> {}]
    /\ taken = [r \in Req |-> FALSE]
    /\ attached = [s \in Sub |-> FALSE]
    /\ pushQueue = [s \in Sub |-> <<>>]
    /\ attachedAt = [s \in Sub |-> 0]
    /\ pubLog = <<>>

\* A request for one of `ops` arrives with one of `headers` and arguments
\* from `inputs`, and the context function of the server derives its
\* identity; a token that does not verify ends the request there.
Context(r, ops, headers, inputs) ==
    /\ pc[r] = "idle"
    /\ \E o \in ops, h \in headers :
          \E a \in ArgsOf(o, inputs) :
             /\ op' = [op EXCEPT ![r] = o]
             /\ header' = [header EXCEPT ![r] = h]
             /\ args' = [args EXCEPT ![r] = a]
             /\ taken' = [taken EXCEPT ![r] =
                    \/ o = "addBook" /\ \E i \in DOMAIN books : books[i].title = a.title
                    \/ /\ o \in {"login", "createUser"}
                       /\ \E i \in DOMAIN users : users[i].username = a.username
                    \/ /\ o = "editAuthor"
                       /\ \E i \in DOMAIN authors : authors[i].name = a.name]
             /\ IF IsBearer(h)
                THEN IF JwtVerifies(h.token, Secret)
                     THEN /\ currentUser' =
                                [currentUser EXCEPT ![r] = UserById(JwtDecoded(h.token).id)]
                          /\ pc' = [pc EXCEPT ![r] = "resolve"]
                          /\ UNCHANGED result
                     ELSE /\ Finish(r, Failure("InvalidCredential", "invalid signature"))
                          /\ UNCHANGED currentUser
                ELSE /\ pc' = [pc EXCEPT ![r] = "resolve"]
                     /\ UNCHANGED <<currentUser, result>>
    /\ audience' = [audience EXCEPT ![r] = {s \in Sub : attached[s]}]
    /\ UNCHANGED <<storeVars, author, book, writes, subVars, issued, pubLog>>

\* The requests of the specifications below.
GateRequest(r) == Context(r, CatalogueOps, Headers, GateInputs)
LibraryRequest(r) == Context(r, CatalogueOps, BearerHeaders, LibraryInputs)
AccountRequest(r) == Context(r, AccountOps, PlainHeaders, GateInputs)
PublishingRequest(r) == Context(r, PublishingOps, BearerHeaders, PublishingInputs)
RaceRequest(r) == Context(r, CatalogueOps, BearerHeaders, PublishingInputs)
ShelfRequest(r) == Context(r, CatalogueOps, BearerHeaders, ShelfInputs)
AuthorsRequest(r) == Context(r, QueryOps, BearerHeaders, ShelfInputs)
AnyRequest(r) == Context(r, ContextOps, AnyHeaders, ContextInputs)
BookRequest(r) == Context(r, CatalogueOps, BearerHeaders, BookInputs)
ReadRequest(r) == Context(r, ReadOps, {NoHeader}, BookInputs)
WriteRequest(r) == Context(r, CatalogueOps, BearerHeaders, PublishingInputs)
EditRequest(r) == Context(r, EditOps, PlainHeaders, EditInputs)

\* The response leaves the server; a client keeps the token of a login.
Respond(r) ==
    /\ pc[r] = "done"
    /\ issued' = IF result[r].kind = "Token" THEN issued \cup {result[r].value}
                 ELSE issued
    /\ pc' = [pc EXCEPT ![r] = "idle"]
    /\ op' = [op EXCEPT ![r] = "none"]
    /\ header' = [header EXCEPT ![r] = NoHeader]
    /\ args' = [args EXCEPT ![r] = NoArgs]
    /\ currentUser' = [currentUser EXCEPT ![r] = NoUser]
    /\ author' = [author EXCEPT ![r] = NoAuthor]
    /\ book' = [book EXCEPT ![r] = NoBook]
    /\ result' = [result EXCEPT ![r] = NoResult]
    /\ writes' = [writes EXCEPT ![r] = NoWrites]
    /\ audience' = [audience EXCEPT ![r] = {}]
    /\ taken' = [taken EXCEPT ![r] = FALSE]
    /\ UNCHANGED <<storeVars, subVars, pubLog>>


(* ------------------------------ addBook ------------------------------- *)
\* Mutant: the authentication check is missing.
NotAuthenticated_Never(user) == FALSE

\* `if (!currentUser)`
NotAuthenticated(user) == user = NoUser

\* Mutant: the bound of the error message, `length < 3`.
TitleTooShort_Lt(title) == Len(title) < 3

\* `args.title.length <= 3`
TitleTooShort(title) == Len(title) <= 3

\* Mutant: the bound of the error message, `length < 4`.
AuthorTooShort_Lt(name) == Len(name) < 4

\* `args.author.length <= 4`
AuthorTooShort(name) == Len(name) <= 4

\* Book.findOne({ title })
BookByTitle(title) ==
    FindOne(books, {i \in DOMAIN books : books[i].title = title}, NoBook)

\* Author.findOne({ name })
AuthorByName(name) ==
    FindOne(authors, {i \in DOMAIN authors : authors[i].name = name}, NoAuthor)

\* addBook up to its first await: the authentication and length checks.
AddBookValidate(r) ==
    /\ pc[r] = "resolve" /\ op[r] = "addBook"
    /\ IF NotAuthenticated(currentUser[r])
       THEN Finish(r, Failure("Unauthenticated", "Not authenticated"))
       ELSE IF TitleTooShort(args[r].title)
       THEN Finish(r, Failure("InvalidInput", "Title must be at least 3 characters"))
       ELSE IF AuthorTooShort(args[r].author)
       THEN Finish(r, Failure("InvalidInput", "Author name must be at least 4 characters"))
       ELSE /\ pc' = [pc EXCEPT ![r] = "findBook"]
            /\ UNCHANGED result
    /\ UNCHANGED <<storeVars, op, header, args, currentUser, author, book, writes,
                   audience, taken, subVars, issued, pubLog>>

\* Mutant: the duplicate title is reported with the wrong error class.
AddBookFindBook_WrongError(r) ==
    /\ pc[r] = "findBook"
    /\ IF BookByTitle(args[r].title) # NoBook
       THEN Finish(r, Failure("Unauthenticated", "Title must be unique"))
       ELSE /\ pc' = [pc EXCEPT ![r] = "findAuthor"]
            /\ UNCHANGED result
    /\ UNCHANGED <<storeVars, op, header, args, currentUser, author, book, writes,
                   audience, taken, subVars, issued, pubLog>>

\* `bookExists = await Book.findOne(...)` and the test on it.
AddBookFindBook(r) ==
    /\ pc[r] = "findBook"
    /\ IF BookByTitle(args[r].title) # NoBook
       THEN Finish(r, Failure("InvalidInput", "Title must be unique"))
       ELSE /\ pc' = [pc EXCEPT ![r] = "findAuthor"]
            /\ UNCHANGED result
    /\ UNCHANGED <<storeVars, op, header, args, currentUser, author, book, writes,
                   audience, taken, subVars, issued, pubLog>>

\* `author = await Author.findOne(...)`; an unknown author is constructed.
AddBookFindAuthor(r) ==
    /\ pc[r] = "findAuthor"
    /\ LET found == AuthorByName(args[r].author)
       IN IF found = NoAuthor
          THEN /\ author' = [author EXCEPT ![r] = [NoAuthor EXCEPT !.name = args[r].author]]
               /\ pc' = [pc EXCEPT ![r] = "saveAuthor"]
          ELSE /\ author' = [author EXCEPT ![r] = found]
               /\ pc' = [pc EXCEPT ![r] = "saveBook"]
    /\ UNCHANGED <<storeVars, op, header, args, currentUser, book, result, writes,
                   audience, taken, subVars, issued, pubLog>>

\* Mutant: `author.save()` is not awaited (as in the addBook of lines 74-84)
\* and the book is saved while the author is not in the store.
AddBookSaveAuthor_NotAwaited(r) ==
    /\ pc[r] = "saveAuthor"
    /\ author' = [author EXCEPT ![r].id = Len(authors) + 1]
    /\ pc' = [pc EXCEPT ![r] = "saveBook"]
    /\ UNCHANGED <<storeVars, op, header, args, currentUser, book, result, writes,
                   audience, taken, subVars, issued, pubLog>>

\* `await author.save()` of a constructed author.  Document ids are unique;
\* a record's id is its position in its collection.
AddBookSaveAuthor(r) ==
    /\ pc[r] = "saveAuthor"
    /\ IF AuthorSaveOk(author[r])
       THEN LET saved == [author[r] EXCEPT !.id = Len(authors) + 1]
            IN /\ authors' = Append(authors, saved)
               /\ author' = [author EXCEPT ![r] = saved]
               /\ writes' = [writes EXCEPT ![r].authors = @ + 1]
               /\ pc' = [pc EXCEPT ![r] = "saveBook"]
               /\ UNCHANGED result
       ELSE /\ Finish(r, Failure("InvalidInput", "author validation failed"))
            /\ UNCHANGED <<authors, author, writes>>
    /\ UNCHANGED <<books, users, op, header, args, currentUser, book,
                   audience, taken, subVars, issued, pubLog>>

\* `new Book({ ...args, author })`
NewBook(a, auth) ==
    [id |-> 0, title |-> a.title, published |-> a.published, genres |-> a.genres,
     author |-> auth.id]

\* Mutant: the rejection of book.save() is swallowed.
AddBookSaveBook_Swallow(r) ==
    /\ pc[r] = "saveBook"
    /\ LET b == NewBook(args[r], author[r])
       IN IF BookSaveOk(b)
          THEN LET saved == [b EXCEPT !.id = Len(books) + 1]
               IN /\ books' = Append(books, saved)
                  /\ book' = [book EXCEPT ![r] = saved]
                  /\ writes' = [writes EXCEPT ![r].books = @ + 1]
          ELSE /\ book' = [book EXCEPT ![r] = b]
               /\ UNCHANGED <<books, writes>>
    /\ pc' = [pc EXCEPT ![r] = "publish"]
    /\ UNCHANGED <<authors, users, op, header, args, currentUser, author, result,
                   audience, taken, subVars, issued, pubLog>>

\* Mutant: the event is published before the book is saved.
AddBookSaveBook_PublishFirst(r) ==
    /\ pc[r] = "saveBook"
    /\ LET b == NewBook(args[r], author[r])
       IN /\ pushQueue' = [s \in Sub |-> IF attached[s] THEN Append(pushQueue[s], b)
                                         ELSE pushQueue[s]]
          /\ pubLog' = Append(pubLog, b)
          /\ IF BookSaveOk(b)
             THEN LET saved == [b EXCEPT !.id = Len(books) + 1]
                  IN /\ books' = Append(books, saved)
                     /\ book' = [book EXCEPT ![r] = saved]
                     /\ writes' = [writes EXCEPT ![r].books = @ + 1, ![r].events = @ + 1]
                     /\ Finish(r, [kind |-> "Book", book |-> saved,
                                   bookAuthor |-> author[r]])
             ELSE /\ Finish(r, Failure("InvalidInput", "duplicate key: title"))
                  /\ writes' = [writes EXCEPT ![r].events = @ + 1]
                  /\ UNCHANGED <<books, book>>
    /\ UNCHANGED <<authors, users, op, header, args, currentUser, author,
                   audience, taken, attached, attachedAt, issued>>

\* Mutant: a rejected book.save() removes the author the call has created.
AddBookSaveBook_Rollback(r) ==
    /\ pc[r] = "saveBook"
    /\ LET b == NewBook(args[r], author[r])
       IN IF BookSaveOk(b)
          THEN LET saved == [b EXCEPT !.id = Len(books) + 1]
               IN /\ books' = Append(books, saved)
                  /\ book' = [book EXCEPT ![r] = saved]
                  /\ writes' = [writes EXCEPT ![r].books = @ + 1]
                  /\ pc' = [pc EXCEPT ![r] = "publish"]
                  /\ UNCHANGED <<result, authors>>
          ELSE /\ Finish(r, Failure("InvalidInput", "duplicate key: title"))
               /\ authors' = IF writes[r].authors = 1
                             THEN SelectSeq(authors, LAMBDA a : a.id # author[r].id)
                             ELSE authors
               /\ UNCHANGED <<books, book, writes>>
    /\ UNCHANGED <<users, op, header, args, currentUser, author,
                   audience, taken, subVars, issued, pubLog>>

\* `book = new Book(...)` and `await book.save()`.
AddBookSaveBook(r) ==
    /\ pc[r] = "saveBook"
    /\ LET b == NewBook(args[r], author[r])
       IN IF BookSaveOk(b)
          THEN LET saved == [b EXCEPT !.id = Len(books) + 1]
               IN /\ books' = Append(books, saved)
                  /\ book' = [book EXCEPT ![r] = saved]
                  /\ writes' = [writes EXCEPT ![r].books = @ + 1]
                  /\ pc' = [pc EXCEPT ![r] = "publish"]
                  /\ UNCHANGED result
          ELSE /\ Finish(r, Failure("InvalidInput", "duplicate key: title"))
               /\ UNCHANGED <<books, book, writes>>
    /\ UNCHANGED <<authors, users, op, header, args, currentUser, author,
                   audience, taken, subVars, issued, pubLog>>

(* ------------------------------ pub/sub ------------------------------- *)
\* Mutant: the payload is published on a topic nobody listens on.
Publish_OtherTopic(queues, listening, payload) == queues

\* PubSub.publish: the payload is pushed to the queue of every iterator
\* that listens on the topic.
Publish(queues, listening, payload) ==
    [s \in Sub |-> IF listening[s] THEN Append(queues[s], payload) ELSE queues[s]]

\* `pubsub.publish("BOOK_ADDED", { bookAdded: book }); return book`
AddBookPublish(r) ==
    /\ pc[r] = "publish"
    /\ pushQueue' = Publish(pushQueue, attached, book[r])
    /\ pubLog' = Append(pubLog, book[r])
    /\ writes' = [writes EXCEPT ![r].events = @ + 1]
    /\ Finish(r, [kind |-> "Book", book |-> book[r], bookAuthor |-> author[r]])
    /\ UNCHANGED <<storeVars, op, header, args, currentUser, author, book, audience,
                   taken, attached, attachedAt, issued>>

\* Mutant: a new iterator is handed the events published so far.
Subscribe_Replay(s) ==
    /\ ~attached[s]
    /\ attached' = [attached EXCEPT ![s] = TRUE]
    /\ attachedAt' = [attachedAt EXCEPT ![s] = Len(pubLog)]
    /\ pushQueue' = [pushQueue EXCEPT ![s] = pubLog]
    /\ UNCHANGED <<storeVars, reqVars, issued, pubLog>>

\* `pubsub.asyncIterator(["BOOK_ADDED"])`: a client subscribes to bookAdded.
Subscribe(s) ==
    /\ ~attached[s]
    /\ attached' = [attached EXCEPT ![s] = TRUE]
    /\ attachedAt' = [attachedAt EXCEPT ![s] = Len(pubLog)]
    /\ pushQueue' = [pushQueue EXCEPT ![s] = <<>>]
    /\ UNCHANGED <<storeVars, reqVars, issued, pubLog>>

\* The client disconnects: the iterator stops listening and drops its queue.
Disconnect(s) ==
    /\ attached[s]
    /\ attached' = [attached EXCEPT ![s] = FALSE]
    /\ pushQueue' = [pushQueue EXCEPT ![s] = <<>>]
    /\ attachedAt' = [attachedAt EXCEPT ![s] = 0]
    /\ audience' = [r \in Req |-> audience[r] \ {s}]
    /\ UNCHANGED <<storeVars, pc, op, header, args, currentUser, author, book,
                   result, writes, taken, issued, pubLog>>

(* ------------------------- users and tokens --------------------------- *)
\* `new User({ username: args.username })`
NewUser(a) == [id |-> 0, username |-> a.username]

\* createUser
CreateUser(r) ==
    /\ pc[r] = "resolve" /\ op[r] = "createUser"
    /\ LET user == NewUser(args[r])
       IN IF UserSaveOk(user)
          THEN LET saved == [user EXCEPT !.id = Len(users) + 1]
               IN /\ users' = Append(users, saved)
                  /\ Finish(r, [kind |-> "User", user |-> saved])
          ELSE /\ Finish(r, Failure("InvalidInput", "duplicate key: username"))
               /\ UNCHANGED users
    /\ UNCHANGED <<authors, books, op, header, args, currentUser, author, book,
                   writes, audience, taken, subVars, issued, pubLog>>

\* User.findOne({ username })
UserByName(username) ==
    FindOne(users, {i \in DOMAIN users : users[i].username = username}, NoUser)

\* Mutant: `&&` for `||`.
WrongCredentials_And(user, password) == user = NoUser /\ password # "secret"

\* `!user || args.password !== "secret"`
WrongCredentials(user, password) == user = NoUser \/ password # "secret"

\* Mutant: the token carries `user.id` of a field that does not exist.
UserForToken_NoId(user) == [username |-> user.username, id |-> 0]

\* `userForToken`
UserForToken(user) == [username |-> user.username, id |-> user.id]

\* login
Login(r) ==
    /\ pc[r] = "resolve" /\ op[r] = "login"
    /\ LET user == UserByName(args[r].username)
       IN IF WrongCredentials(user, args[r].password)
          THEN Finish(r, Failure("InvalidInput", "Wrong credentials"))
          ELSE Finish(r, [kind |-> "Token", value |-> JwtSign(UserForToken(user), Secret)])
    /\ UNCHANGED <<storeVars, op, header, args, currentUser, author, book, writes,
                   audience, taken, subVars, issued, pubLog>>

\* me
Me(r) ==
    /\ pc[r] = "resolve" /\ op[r] = "me"
    /\ Finish(r, [kind |-> "User", user |-> currentUser[r]])
    /\ UNCHANGED <<storeVars, op, header, args, currentUser, author, book, writes,
                   audience, taken, subVars, issued, pubLog>>

(* ----------------------------- allAuthors ----------------------------- *)
\* Mutant: the filter of the query is missing.
BookCountOf_All(root) == Len(Find(books, DOMAIN books))

\* Author.bookCount: `Book.find({ author: { $eq: root.id } })`, `books.length`
BookCountOf(root) ==
    Len(Find(books, {i \in DOMAIN books : books[i].author = root.id}))

\* allAuthors: `Author.find({})`
AllAuthors(r) ==
    /\ pc[r] = "resolve" /\ op[r] = "allAuthors"
    /\ LET list == Find(authors, DOMAIN authors)
       IN IF list = <<>>
          THEN Finish(r, [kind |-> "Authors", list |-> list, bookCount |-> <<>>])
          ELSE /\ pc' = [pc EXCEPT ![r] = "bookCount"]
               /\ result' = [result EXCEPT ![r] =
                                [kind |-> "Authors", list |-> list, bookCount |-> <<>>]]
    /\ UNCHANGED <<storeVars, op, header, args, currentUser, author, book, writes,
                   audience, taken, subVars, issued, pubLog>>

\* The bookCount field of the next author of the list is resolved.
AuthorBookCount(r) ==
    /\ pc[r] = "bookCount"
    /\ LET n == Len(result[r].bookCount) + 1
           counts == Append(result[r].bookCount, BookCountOf(result[r].list[n]))
       IN /\ result' = [result EXCEPT ![r].bookCount = counts]
          /\ pc' = [pc EXCEPT ![r] = IF n = Len(result[r].list) THEN "done" ELSE "bookCount"]
    /\ UNCHANGED <<storeVars, op, header, args, currentUser, author, book, writes,
                   audience, taken, subVars, issued, pubLog>>

(* ----------------------------- editAuthor ----------------------------- *)
\* Mutant: the editAuthor of lines 85-89, which has no authentication check.
EditAuthorResolve_NoGate(r) ==
    /\ pc[r] = "resolve" /\ op[r] = "editAuthor"
    /\ pc' = [pc EXCEPT ![r] = "editFind"]
    /\ UNCHANGED <<storeVars, op, header, args, currentUser, author, book, result,
                   writes, audience, taken, subVars, issued, pubLog>>

\* editAuthor up to its first await: the authentication check.
EditAuthorResolve(r) ==
    /\ pc[r] = "resolve" /\ op[r] = "editAuthor"
    /\ IF NotAuthenticated(currentUser[r])
       THEN Finish(r, Failure("Unauthenticated", "Not authenticated"))
       ELSE /\ pc' = [pc EXCEPT ![r] = "editFind"]
            /\ UNCHANGED result
    /\ UNCHANGED <<storeVars, op, header, args, currentUser, author, book, writes,
                   audience, taken, subVars, issued, pubLog>>

\* Mutant: a guard returns null for an author that is not found.
EditAuthorFind_ReturnsNull(r) ==
    /\ pc[r] = "editFind"
    /\ LET found == AuthorByName(args[r].name)
       IN IF found = NoAuthor
          THEN /\ Finish(r, [kind |-> "Author", author |-> NoAuthor])
               /\ UNCHANGED author
          ELSE /\ author' = [author EXCEPT ![r] = [found EXCEPT !.born = args[r].setBornTo]]
               /\ pc' = [pc EXCEPT ![r] = "editSave"]
               /\ UNCHANGED result
    /\ UNCHANGED <<storeVars, op, header, args, currentUser, book, writes,
                   audience, taken, subVars, issued, pubLog>>

\* `author = await Author.findOne(...)` and `author.born = args.setBornTo`:
\* the assignment throws a TypeError when findOne returned null.
EditAuthorFind(r) ==
    /\ pc[r] = "editFind"
    /\ LET found == AuthorByName(args[r].name)
       IN IF found = NoAuthor
          THEN /\ Finish(r, Failure("TypeError", "Cannot set property 'born' of null"))
               /\ UNCHANGED author
          ELSE /\ author' = [author EXCEPT ![r] = [found EXCEPT !.born = args[r].setBornTo]]
               /\ pc' = [pc EXCEPT ![r] = "editSave"]
               /\ UNCHANGED result
    /\ UNCHANGED <<storeVars, op, header, args, currentUser, book, writes,
                   audience, taken, subVars, issued, pubLog>>

\* `await author.save()` of the document that was found, and `return author`:
\* the store sets the modified field of the record with the document's id.
EditAuthorSave(r) ==
    /\ pc[r] = "editSave"
    /\ IF AuthorSaveOk(author[r])
       THEN /\ authors' = [i \in DOMAIN authors |->
                              IF authors[i].id = author[r].id
                              THEN [authors[i] EXCEPT !.born = author[r].born]
                              ELSE authors[i]]
            /\ writes' = [writes EXCEPT ![r].edits = @ + 1]
            /\ Finish(r, [kind |-> "Author", author |-> author[r]])
       ELSE /\ Finish(r, Failure("InvalidInput", "author validation failed"))
            /\ UNCHANGED <<authors, writes>>
    /\ UNCHANGED <<books, users, op, header, args, currentUser, author, book,
                   audience, taken, subVars, issued, pubLog>>

(* ------------------------- allBooks and counts ------------------------ *)
\* Author.findById(id), as populate("author") runs it for a book.
AuthorById(id) ==
    FindOne(authors, {i \in DOMAIN authors : authors[i].id = id}, NoAuthor)

\* `.populate("author")`: each book with the Author its reference names.
Populate(list) ==
    [i \in DOMAIN list |-> [book |-> list[i], author |-> AuthorById(list[i].author)]]

\* allBooks: `Book.find({}).populate("author")`; `args` is not read.
AllBooks(r) ==
    /\ pc[r] = "resolve" /\ op[r] = "allBooks"
    /\ Finish(r, [kind |-> "Books", list |-> Populate(Find(books, DOMAIN books))])
    /\ UNCHANGED <<storeVars, op, header, args, currentUser, author, book, writes,
                   audience, taken, subVars, issued, pubLog>>

\* The value of a function body that ends without a `return`.
Undefined == [kind |-> "undefined"]

\* collection.countDocuments()
CountDocuments(coll) == [kind |-> "Int", value |-> Len(coll)]

\* Query.bookCount: a block body that calls countDocuments and returns nothing.
QueryBookCount ==
    LET counted == CountDocuments(books)
    IN Undefined

\* Query.authorCount: an expression body, the count is the returned value.
QueryAuthorCount == CountDocuments(authors)

\* A field of type `Int!`: null or undefined completes to an error.
CompleteNonNull(value, field) ==
    IF value = Undefined
    THEN Failure("Internal", "Cannot return null for non-nullable field " \o field)
    ELSE value

\* bookCount
BookCount(r) ==
    /\ pc[r] = "resolve" /\ op[r] = "bookCount"
    /\ Finish(r, CompleteNonNull(QueryBookCount, "Query.bookCount"))
    /\ UNCHANGED <<storeVars, op, header, args, currentUser, author, book, writes,
                   audience, taken, subVars, issued, pubLog>>

\* authorCount
AuthorCount(r) ==
    /\ pc[r] = "resolve" /\ op[r] = "authorCount"
    /\ Finish(r, CompleteNonNull(QueryAuthorCount, "Query.authorCount"))
    /\ UNCHANGED <<storeVars, op, header, args, currentUser, author, book, writes,
                   audience, taken, subVars, issued, pubLog>>

(* --------------------------- specification ---------------------------- *)
\* The gate: addBook requests with any header.
Next ==
    \/ \E r \in Req : GateRequest(r)
    \/ \E r \in Req : AddBookValidate(r)
    \/ \E r \in Req : AddBookFindBook(r)
    \/ \E r \in Req : AddBookFindAuthor(r)
    \/ \E r \in Req : AddBookSaveAuthor(r)
    \/ \E r \in Req : AddBookSaveBook(r)
    \/ \E r \in Req : AddBookPublish(r)
    \/ \E r \in Req : Respond(r)

Spec == InitRegistered /\ [][Next]_vars

\* The catalogue: addBook requests of logged-in clients with any arguments.
NextInput ==
    \/ \E r \in Req : LibraryRequest(r)
    \/ \E r \in Req : AddBookValidate(r)
    \/ \E r \in Req : AddBookFindBook(r)
    \/ \E r \in Req : AddBookFindAuthor(r)
    \/ \E r \in Req : AddBookSaveAuthor(r)
    \/ \E r \in Req : AddBookSaveBook(r)
    \/ \E r \in Req : AddBookPublish(r)
    \/ \E r \in Req : Respond(r)

SpecInput == InitRegistered /\ [][NextInput]_vars

\* The races: valid addBook requests of logged-in clients.
NextRace ==
    \/ \E r \in Req : RaceRequest(r)
    \/ \E r \in Req : AddBookValidate(r)
    \/ \E r \in Req : AddBookFindBook(r)
    \/ \E r \in Req : AddBookFindAuthor(r)
    \/ \E r \in Req : AddBookSaveAuthor(r)
    \/ \E r \in Req : AddBookSaveBook(r)
    \/ \E r \in Req : AddBookPublish(r)
    \/ \E r \in Req : Respond(r)

SpecRace == InitRegistered /\ [][NextRace]_vars

\* The shelves: addBook requests of logged-in clients while other clients
\* query the authors.
NextShelf ==
    \/ \E r \in Pub : ShelfRequest(r)
    \/ \E r \in Readers : AuthorsRequest(r)
    \/ \E r \in Pub : AddBookValidate(r)
    \/ \E r \in Pub : AddBookFindBook(r)
    \/ \E r \in Pub : AddBookFindAuthor(r)
    \/ \E r \in Pub : AddBookSaveAuthor(r)
    \/ \E r \in Pub : AddBookSaveBook(r)
    \/ \E r \in Pub : AddBookPublish(r)
    \/ \E r \in Readers : AllAuthors(r)
    \/ \E r \in Readers : AuthorBookCount(r)
    \/ \E r \in Req : Respond(r)

SpecShelf == InitRegistered /\ [][NextShelf]_vars

\* The accounts: createUser, login and me requests.
NextAuth ==
    \/ \E r \in Req : AccountRequest(r)
    \/ \E r \in Req : CreateUser(r)
    \/ \E r \in Req : Login(r)
    \/ \E r \in Req : Me(r)
    \/ \E r \in Req : Respond(r)

SpecAuth == Init /\ [][NextAuth]_vars

\* The bookAdded channel: addBook requests and subscribing clients.
NextSub ==
    \/ \E r \in Pub : PublishingRequest(r)
    \/ \E r \in Pub : AddBookValidate(r)
    \/ \E r \in Pub : AddBookFindBook(r)
    \/ \E r \in Pub : AddBookFindAuthor(r)
    \/ \E r \in Pub : AddBookSaveAuthor(r)
    \/ \E r \in Pub : AddBookSaveBook(r)
    \/ \E r \in Pub : AddBookPublish(r)
    \/ \E r \in Pub : Respond(r)
    \/ \E s \in Sub : Subscribe(s)
    \/ \E s \in Sub : Disconnect(s)

SpecSub == InitRegistered /\ [][NextSub]_vars

\* The context: me, addBook and editAuthor requests with any header,
\* also one that carries the token of a user the store no longer holds.
NextContext ==
    \/ \E r \in Pub : AnyRequest(r)
    \/ \E r \in Pub : Me(r)
    \/ \E r \in Pub : AddBookValidate(r)
    \/ \E r \in Pub : AddBookFindBook(r)
    \/ \E r \in Pub : AddBookFindAuthor(r)
    \/ \E r \in Pub : AddBookSaveAuthor(r)
    \/ \E r \in Pub : AddBookSaveBook(r)
    \/ \E r \in Pub : AddBookPublish(r)
    \/ \E r \in Pub : EditAuthorResolve(r)
    \/ \E r \in Pub : EditAuthorFind(r)
    \/ \E r \in Pub : EditAuthorSave(r)
    \/ \E r \in Pub : Respond(r)

SpecContext == InitRegistered /\ [][NextContext]_vars

\* The readers: addBook requests of logged-in clients while other clients
\* run the allBooks, bookCount and authorCount queries.
NextRead ==
    \/ \E r \in Pub : BookRequest(r)
    \/ \E r \in Readers : ReadRequest(r)
    \/ \E r \in Pub : AddBookValidate(r)
    \/ \E r \in Pub : AddBookFindBook(r)
    \/ \E r \in Pub : AddBookFindAuthor(r)
    \/ \E r \in Pub : AddBookSaveAuthor(r)
    \/ \E r \in Pub : AddBookSaveBook(r)
    \/ \E r \in Pub : AddBookPublish(r)
    \/ \E r \in Readers : AllBooks(r)
    \/ \E r \in Readers : BookCount(r)
    \/ \E r \in Readers : AuthorCount(r)
    \/ \E r \in Req : Respond(r)

SpecRead == InitRegistered /\ [][NextRead]_vars

\* The editors: addBook requests of logged-in clients while other clients,
\* logged in or not, run editAuthor.
NextEdit ==
    \/ \E r \in Pub : WriteRequest(r)
    \/ \E r \in Readers : EditRequest(r)
    \/ \E r \in Pub : AddBookValidate(r)
    \/ \E r \in Pub : AddBookFindBook(r)
    \/ \E r \in Pub : AddBookFindAuthor(r)
    \/ \E r \in Pub : AddBookSaveAuthor(r)
    \/ \E r \in Pub : AddBookSaveBook(r)
    \/ \E r \in Pub : AddBookPublish(r)
    \/ \E r \in Readers : EditAuthorResolve(r)
    \/ \E r \in Readers : EditAuthorFind(r)
    \/ \E r \in Readers : EditAuthorSave(r)
    \/ \E r \in Req : Respond(r)

SpecEdit == InitRegistered /\ [][NextEdit]_vars

(* ------------------------------ properties ---------------------------- *)
\* The request ended in the context function, before any resolver.
EndedInContext(r) == pc[r] = "done" /\ result[r].kind = "error" /\ result[r].error = "InvalidCredential"

\* The resolver of request r has run to its end.
Resolved(r) == pc[r] = "done" /\ ~EndedInContext(r)

Unauthenticated == Failure("Unauthenticated", "Not authenticated")

IsInvalidInput(res) == res.kind = "error" /\ res.error = "InvalidInput"

\* The events connection s has been sent, oldest first.
Received(s) == pushQueue[s]

Occurrences(seq, x) == Cardinality({i \in DOMAIN seq : seq[i] = x})

\* C1: an addBook call whose context holds no identity fails with
\* Unauthenticated whatever its arguments, and it writes no Author, no Book
\* and publishes no bookAdded event.
C1_UnauthenticatedAddBook ==
    \A r \in Req :
       op[r] = "addBook" /\ currentUser[r] = NoUser =>
          /\ pc[r] \in {"resolve", "done"}
          /\ writes[r] = NoWrites
          /\ Resolved(r) => result[r] = Unauthenticated

\* C1 witness: an anonymous addBook call with valid arguments and a new
\* title has been refused.
C1_Witness ==
    \E r \in Req :
       /\ op[r] = "addBook" /\ Resolved(r) /\ currentUser[r] = NoUser
       /\ Len(args[r].title) > 3 /\ Len(args[r].author) > 4 /\ ~taken[r]
       /\ result[r] = Unauthenticated

C3_TakenTitle ==
    \A r \in Req :
       op[r] = "addBook" /\ currentUser[r] # NoUser /\ taken[r] =>
          /\ writes[r].books = 0
          /\ pc[r] \in {"resolve", "findBook", "done"}
          /\ pc[r] = "done" => IsInvalidInput(result[r])

\* C3 witness: a call for a taken title, whose genres differ from those of
\* the Book that carries the title, has been refused by the title check.
C3_Witness ==
    \E r \in Req :
       /\ op[r] = "addBook" /\ pc[r] = "done" /\ taken[r]
       /\ result[r] = Failure("InvalidInput", "Title must be unique")
       /\ \E i \in DOMAIN books :
             books[i].title = args[r].title /\ books[i].genres # args[r].genres

\* C4: no two Book records carry the same title; a call that returns a Book
\* has inserted it, so of two calls for one title at most one returns a Book
\* and the other fails with InvalidInput, also when both pass the findOne
\* check before either saves.
C4_UniqueTitles ==
    /\ \A i, j \in DOMAIN books : books[i].title = books[j].title => i = j
    /\ \A r \in Req :
          op[r] = "addBook" /\ pc[r] = "done" /\ result[r].kind = "Book" =>
             /\ result[r].book \in Range(books)
             /\ result[r].book.title = args[r].title
    /\ \A r \in Req :
          op[r] = "addBook" /\ Resolved(r) /\ currentUser[r] # NoUser =>
             result[r].kind = "Book" \/ IsInvalidInput(result[r])

\* C4 witness: two calls for one title have both passed the findOne check;
\* one returned the Book and the store refused the insert of the other.
C4_Witness ==
    \E r1, r2 \in Req :
       /\ r1 # r2
       /\ pc[r1] = "done" /\ pc[r2] = "done"
       /\ args[r1].title = args[r2].title
       /\ result[r1].kind = "Book"
       /\ result[r2] = Failure("InvalidInput", "duplicate key: title")

\* C5: no two Author records carry the same name, also when two addBook
\* calls naming one unknown author interleave between Author.findOne and
\* author.save.
C5_UniqueAuthorNames ==
    \A i, j \in DOMAIN authors : authors[i].name = authors[j].name => i = j

\* C6: an authenticated addBook call with valid input returns a Book of the
\* store whose author reference is an Author of the store named as the
\* input says, and every connection subscribed to bookAdded since before
\* the call has been sent exactly that Book, once; the call fails only when
\* its title has been taken.
C6_AddBookResult ==
    \A r \in Req :
       /\ op[r] = "addBook" /\ pc[r] = "done" /\ currentUser[r] # NoUser
       /\ Len(args[r].title) > 3 /\ Len(args[r].author) > 4
       => IF result[r].kind = "Book"
          THEN /\ result[r].book \in Range(books)
               /\ result[r].book.title = args[r].title
               /\ result[r].bookAuthor \in Range(authors)
               /\ result[r].bookAuthor.name = args[r].author
               /\ result[r].book.author = result[r].bookAuthor.id
               /\ \A s \in audience[r] : Occurrences(Received(s), result[r].book) = 1
          ELSE /\ IsInvalidInput(result[r])
               /\ \E i \in DOMAIN books : books[i].title = args[r].title

\* C6 witness: a call has returned a Book by an author it created, and a
\* connection subscribed before the call has been sent that Book.
C6_Witness ==
    \E r \in Req :
       /\ op[r] = "addBook" /\ pc[r] = "done" /\ result[r].kind = "Book"
       /\ writes[r].authors = 1
       /\ \E s \in audience[r] : Received(s) = <<result[r].book>>

\* C7: a subscribed connection is sent exactly the Books published since it
\* subscribed, each once and in publish order: nothing published before it
\* subscribed, and nothing once it has disconnected.
C7_NoReplayInOrder ==
    \A s \in Sub :
       IF attached[s]
       THEN /\ attachedAt[s] <= Len(pubLog)
            /\ Received(s) = SubSeq(pubLog, attachedAt[s] + 1, Len(pubLog))
       ELSE Received(s) = <<>>

\* C7 witness: of two publications, a connection that subscribed before both
\* has been sent both in publish order, and one that subscribed between them
\* has been sent the second only.
C7_Witness ==
    \E s, t \in Sub :
       /\ Len(pubLog) = 2 /\ pubLog[1] # pubLog[2]
       /\ attached[s] /\ attachedAt[s] = 0 /\ Received(s) = pubLog
       /\ attached[t] /\ attachedAt[t] = 1 /\ Received(t) = <<pubLog[2]>>

\* C8: the bookCount that allAuthors resolves for an Author is the number
\* of Book records whose author reference is that Author's id, in the store
\* as it is when the field is resolved; allAuthors lists every Author.
C8_BookCount ==
    [][\A r \in Req :
          /\ (pc[r] = "resolve" /\ op[r] = "allAuthors" /\ pc'[r] # "resolve"
                => result'[r].list = authors)
          /\ (pc[r] = "bookCount" /\ result'[r] # result[r] =>
                LET n == Len(result'[r].bookCount)
                IN /\ n = Len(result[r].bookCount) + 1
                   /\ result'[r].list = result[r].list
                   /\ result'[r].bookCount[n] =
                         Cardinality({i \in DOMAIN books :
                                         books[i].author = result[r].list[n].id}))]_vars

\* C8 witness: with two books in the store, allAuthors has returned their
\* two authors with one book each.
C8_Witness ==
    \E r \in Req :
       /\ op[r] = "allAuthors" /\ pc[r] = "done"
       /\ Len(books) = 2 /\ Len(result[r].list) = 2
       /\ result[r].list[1].name # result[r].list[2].name
       /\ result[r].bookCount = <<1, 1>>

\* C9: login with the username of a User of the store and the shared
\* secret returns a Token of that username; a me request that carries a
\* Token handed out by login as its bearer credential returns the User of
\* the store with the Token's username.
C9_TokenRoundTrip ==
    \A r \in Req :
       /\ op[r] = "login" /\ pc[r] = "done" /\ taken[r] /\ args[r].password = "secret"
          /\ ~EndedInContext(r)
          => /\ result[r].kind = "Token"
             /\ result[r].value.username = args[r].username
       /\ op[r] = "me" /\ pc[r] = "done" /\ header[r].scheme = "Bearer "
          /\ header[r].token \in issued
          => /\ result[r].kind = "User"
             /\ result[r].user \in Range(users)
             /\ result[r].user.username = header[r].token.username

\* C9 witness: with two users in the store, me has returned the second one
\* to a request carrying her token.
C9_Witness ==
    \E r \in Req :
       /\ op[r] = "me" /\ pc[r] = "done" /\ header[r].token \in issued
       /\ header[r].scheme = "Bearer "
       /\ Len(users) = 2 /\ result[r] = [kind |-> "User", user |-> users[2]]

\* C10: login fails with InvalidInput ("Wrong credentials") whenever no
\* User has the username or the password is not the shared secret, and
\* returns a Token only when the User exists and the password matches.
C10_LoginFailure ==
    LET wrong == Failure("InvalidInput", "Wrong credentials")
        exists(r) == \E i \in DOMAIN users : users[i].username = args[r].username
    IN /\ \A r \in Req :
             op[r] = "login" /\ Resolved(r) =>
                /\ result[r].kind = "Token" \/ result[r] = wrong
                /\ result[r].kind = "Token" => exists(r) /\ args[r].password = "secret"
                /\ args[r].password # "secret" => result[r] = wrong
                /\ ~exists(r) => result[r] = wrong
                /\ taken[r] /\ args[r].password = "secret" => result[r].kind = "Token"
       /\ \A t \in issued : \E i \in DOMAIN users :
             users[i].username = t.username /\ users[i].id = t.id

\* C10 witness: one login has failed on the password of an existing user,
\* another on a username no User has, with the right password.
C10_Witness ==
    \E r1, r2 \in Req :
       /\ op[r1] = "login" /\ op[r2] = "login" /\ pc[r1] = "done" /\ pc[r2] = "done"
       /\ taken[r1] /\ args[r1].password = "guess"
       /\ ~taken[r2] /\ args[r2].password = "secret"
       /\ ~\E i \in DOMAIN users : users[i].username = args[r2].username
       /\ result[r1] = Failure("InvalidInput", "Wrong credentials")
       /\ result[r2] = result[r1]

\* C11: a request without an authorization header runs with an anonymous
\* context; a request whose bearer credential does not verify against the
\* signing secret fails with InvalidCredential before any resolver runs,
\* with no identity, no result of a resolver and no write; one whose bearer
\* credential verifies reaches its resolver.  A header that does not start
\* with the bearer prefix carries no bearer credential: anonymous context.
C11_ContextCredential ==
    \A r \in Req :
       pc[r] # "idle" =>
          /\ header[r] = NoHeader => ~EndedInContext(r) /\ currentUser[r] = NoUser
          /\ header[r].scheme = "Bearer " /\ header[r].token.sig # "SECRET" =>
                /\ pc[r] = "done"
                /\ result[r] = Failure("InvalidCredential", "invalid signature")
                /\ currentUser[r] = NoUser /\ author[r] = NoAuthor
                /\ writes[r] = NoWrites
          /\ header[r].scheme = "Bearer " /\ header[r].token.sig = "SECRET" =>
                ~EndedInContext(r)
          /\ header[r] # NoHeader /\ header[r].scheme # "Bearer " =>
                ~EndedInContext(r) /\ currentUser[r] = NoUser

\* C11 witness: an addBook request with valid arguments and a forged bearer
\* token has been ended by the context function.
C11_Witness ==
    \E r \in Req :
       /\ op[r] = "addBook" /\ pc[r] = "done" /\ header[r].scheme = "Bearer "
       /\ header[r].token.sig = "forged"
       /\ Len(args[r].title) > 3 /\ Len(args[r].author) > 4
       /\ result[r] = Failure("InvalidCredential", "invalid signature")

\* C12: allBooks(author?, genre?) returns exactly the Book records of the
\* store that match the filters given: with author, those whose Author has
\* that name; with genre, those whose genres contain it; with both, those
\* matching both; with neither, all books.
C12_AllBooksFilters ==
    [][\A r \in Req :
          pc[r] = "resolve" /\ op[r] = "allBooks" /\ pc'[r] = "done" =>
             LET byAuthor(b) ==
                    \/ args[r].author = ""
                    \/ \E j \in DOMAIN authors :
                          authors[j].id = b.author /\ authors[j].name = args[r].author
                 byGenre(b) ==
                    \/ args[r].genre = ""
                    \/ \E k \in DOMAIN b.genres : b.genres[k] = args[r].genre
                 matching == SelectSeq(books, LAMBDA b : byAuthor(b) /\ byGenre(b))
             IN /\ result'[r].kind = "Books"
                /\ Len(result'[r].list) = Len(matching)
                /\ \A i \in DOMAIN matching : result'[r].list[i].book = matching[i]]_vars

\* C13: the bookCount query returns the number of Book records in the
\* store: 0 for the empty store, n after n successful addBook calls.
C13_BookCountQuery ==
    [][\A r \in Req :
          pc[r] = "resolve" /\ op[r] = "bookCount" /\ pc'[r] = "done" =>
             result'[r] = [kind |-> "Int", value |-> Len(books)]]_vars

\* C14: an editAuthor call whose context holds no identity is refused with
\* Unauthenticated before any store access: it looks no Author up, and it
\* changes no Author record, birth years included.
C14_UnauthenticatedEditAuthor ==
    /\ [](\A r \in Req :
            op[r] = "editAuthor" /\ currentUser[r] = NoUser =>
               /\ pc[r] \in {"resolve", "done"}
               /\ author[r] = NoAuthor
               /\ writes[r] = NoWrites
               /\ Resolved(r) => result[r] = Unauthenticated)
    /\ [][\A r \in Req :
            op[r] = "editAuthor" /\ currentUser[r] = NoUser /\ pc'[r] # pc[r]
               => authors' = authors /\ books' = books /\ users' = users]_vars

\* C14 witness: an anonymous editAuthor call that names an Author of the
\* store and a birth year has been refused, and the Author has no birth year.
C14_Witness ==
    \E r \in Req :
       /\ op[r] = "editAuthor" /\ Resolved(r) /\ currentUser[r] = NoUser
       /\ args[r].setBornTo = 1883
       /\ result[r] = Unauthenticated
       /\ \E i \in DOMAIN authors :
             authors[i].name = args[r].name /\ authors[i].born = 0

\* C15: when the findOne of an authenticated editAuthor call matches no
\* Author, the call ends in a failure that is none of the classified errors,
\* not in a result; no Author is created and the store is unchanged.
C15_EditUnknownAuthor ==
    [][\A r \in Req :
          /\ pc[r] = "editFind" /\ pc'[r] # "editFind"
          /\ ~\E i \in DOMAIN authors : authors[i].name = args[r].name
          => /\ pc'[r] = "done"
             /\ result'[r].kind = "error"
             /\ result'[r].error \notin {"InvalidInput", "Unauthenticated", "InvalidCredential"}
             /\ writes'[r] = NoWrites
             /\ authors' = authors /\ books' = books /\ users' = users]_vars

\* C15 witness: an authenticated editAuthor call for a name no Author has
\* has failed on a store that holds another Author.
C15_Witness ==
    \E r \in Req :
       /\ op[r] = "editAuthor" /\ pc[r] = "done" /\ currentUser[r] # NoUser
       /\ result[r].kind = "error" /\ result[r].error = "TypeError"
       /\ authors # <<>>
       /\ \A i \in DOMAIN authors : authors[i].name # args[r].name

C17_GhostToken ==
    \A r \in Req :
       /\ pc[r] # "idle" /\ header[r].scheme = "Bearer "
       /\ header[r].token.sig = "SECRET"
       /\ ~\E i \in DOMAIN users : users[i].id = header[r].token.id
       => /\ ~EndedInContext(r)
          /\ currentUser[r] = NoUser
          /\ pc[r] \in {"resolve", "done"}
          /\ writes[r] = NoWrites
          /\ pc[r] = "done" =>
                /\ op[r] = "me" => result[r] = [kind |-> "User", user |-> NoUser]
                /\ op[r] \in {"addBook", "editAuthor"} => result[r] = Unauthenticated

\* C17 witness: with the token of a removed user, editAuthor for an Author
\* of the store has been refused, while the store holds a user.
C17_Witness ==
    \E r \in Req :
       /\ users # <<>>
       /\ header[r].scheme = "Bearer "
       /\ header[r].token.sig = "SECRET" /\ header[r].token.id = 99
       /\ op[r] = "editAuthor" /\ pc[r] = "done" /\ taken[r]
       /\ result[r] = Unauthenticated

\* C18: every event published on BOOK_ADDED carries a Book that is in the
\* store when it is published; an addBook call that returns a Book has
\* written it and published exactly one event, and one that fails, on
\* authentication, validation or a store error, has published none.
C18_PublishAfterWrite ==
    /\ \A i \in DOMAIN pubLog : \E j \in DOMAIN books : books[j] = pubLog[i]
    /\ \A i, j \in DOMAIN pubLog : pubLog[i] = pubLog[j] => i = j
    /\ \A r \in Req :
          op[r] = "addBook" =>
             /\ writes[r].events <= writes[r].books
             /\ pc[r] # "done" => writes[r].events = 0
             /\ pc[r] = "done" /\ result[r].kind = "Book" =>
                   /\ writes[r].books = 1 /\ writes[r].events = 1
                   /\ \E i \in DOMAIN pubLog : pubLog[i] = result[r].book
             /\ pc[r] = "done" /\ result[r].kind = "error" => writes[r].events = 0

\* C18 witness: of two calls for one title, one has written the Book and
\* published it, and the other, refused by the store, has published nothing.
C18_Witness ==
    \E r1, r2 \in Req :
       /\ pc[r1] = "done" /\ result[r1].kind = "Book" /\ writes[r1].events = 1
       /\ pc[r2] = "done" /\ result[r2] = Failure("InvalidInput", "duplicate key: title")
       /\ writes[r2].events = 0
       /\ pubLog = <<result[r1].book>>

\* C19, as claimed: when book.save() of an addBook call that has created a
\* new Author is rejected, the call fails with InvalidInput and the Author
\* it created stays in the store with no Book referencing it.
C19_OrphanAuthor ==
    [][\A r \in Req :
          pc[r] = "saveBook" /\ pc'[r] = "done" /\ writes[r].authors = 1 =>
             /\ IsInvalidInput(result'[r])
             /\ \E j \in DOMAIN authors' : authors'[j] = author[r]
             /\ ~\E i \in DOMAIN books' : books'[i].author = author[r].id]_vars

\* C19, amended: when book.save() of an addBook call that has created a new
\* Author is rejected, the call fails with InvalidInput having written no
\* Book, and the Author it created stays in the store; no Author is ever
\* removed from the store.
C19_AuthorNotRolledBack ==
    [][/\ \A r \in Req :
             pc[r] = "saveBook" /\ pc'[r] = "done" /\ writes[r].authors = 1 =>
                /\ IsInvalidInput(result'[r])
                /\ writes'[r] = [NoWrites EXCEPT !.authors = 1]
                /\ books' = books
                /\ \E j \in DOMAIN authors' : authors'[j] = author[r]
       /\ \A j \in DOMAIN authors :
             j \in DOMAIN authors' /\ authors'[j].id = authors[j].id
                                   /\ authors'[j].name = authors[j].name]_vars

\* C19 witness: a call has failed on book.save() after it created an
\* Author; the Author is in the store and no Book references it.
C19_Witness ==
    \E r \in Req :
       /\ op[r] = "addBook" /\ pc[r] = "done" /\ writes[r].authors = 1
       /\ result[r] = Failure("InvalidInput", "duplicate key: title")
       /\ \E j \in DOMAIN authors : authors[j] = author[r]
       /\ ~\E i \in DOMAIN books : books[i].author = author[r].id

\* C20: the author reference of every Book is the id of exactly one Author
\* of the store, which is there when the Book is written; a Book of the
\* store keeps its title and its author reference, and is never removed.
C20_BookAuthorReference ==
    /\ [](\A i \in DOMAIN books :
            Cardinality({j \in DOMAIN authors : authors[j].id = books[i].author}) = 1)
    /\ [][\A i \in DOMAIN books :
            /\ i \in DOMAIN books'
            /\ books'[i].title = books[i].title
            /\ books'[i].author = books[i].author
            /\ \E j \in DOMAIN authors : authors[j].id = books'[i].author]_vars

\* C20 witness: two Books reference one Author, whose birth year editAuthor
\* has set since.
C20_Witness ==
    /\ Len(books) = 2
    /\ books[1].author = books[2].author
    /\ \E j \in DOMAIN authors : authors[j].id = books[1].author /\ authors[j].born = 1883

====
